---- MODULE Spec2Model ----
(***************************************************************************)
(* State-machine model of webcrawl-md-pdf:                                 *)
(*   crawl_docs_fast.py  crawl_parallel, create_safe_filename,             *)
(*                       remove_malformed_links                            *)
(*   markdown_to_pdf.py  process_multiple_files                            *)
(* Text is a sequence of one-character strings.                            *)
(***************************************************************************)
EXTENDS Naturals, Integers, Sequences, FiniteSets, TLC

(* ------------------------------------------------------------------ *)
(* Bounds of the model                                                 *)
(* ------------------------------------------------------------------ *)
\* longest URL list handed to crawl_parallel
MaxUrls == 3
\* largest max_concurrent handed to crawl_parallel
MaxConcurrent == 3
\* number of fragments a sanitizer input is built from
MaxPieces == 4
\* number of fragments a URL is built from for create_safe_filename
MaxUrlPieces == 3
\* largest number of files the glob of process_multiple_files matches
MaxFiles == 3

(* ------------------------------------------------------------------ *)
(* Characters and regular-expression classes                           *)
(* ------------------------------------------------------------------ *)
NL == "\n"

\* \s of Python's re
IsSpace(c) == c \in {" ", "\n", "\t"}

\* \d of Python's re
IsDigit(c) == c \in {"0", "1", "2", "3", "4", "5", "6", "7", "8", "9"}

\* [\.\-]
IsPhoneSep(c) == c \in {".", "-"}

Min(S) == CHOOSE x \in S : \A y \in S : x <= y
Max(S) == CHOOSE x \in S : \A y \in S : x >= y

\* s[p .. p+Len(lit)-1] = lit
LitAt(s, p, lit) ==
    /\ p >= 1
    /\ p + Len(lit) - 1 <= Len(s)
    /\ \A k \in 1..Len(lit) : s[p + k - 1] = lit[k]

\* index of the first newline at or after p; 0 when the line of p is the
\* unterminated last line
RECURSIVE EolAt(_, _)
EolAt(s, p) ==
    IF p > Len(s) THEN 0
    ELSE IF s[p] = NL THEN p
    ELSE EolAt(s, p + 1)

\* last index `.*` can consume starting at p (all characters but newline)
DotStarEnd(s, p) ==
    LET e == EolAt(s, p)
    IN IF e = 0 THEN Len(s) ELSE e - 1

(* ------------------------------------------------------------------ *)
(* remove_malformed_links                                              *)
(* ------------------------------------------------------------------ *)
Marker == <<"<", "h", "t", "t", "p", "s", ":", "/">>

\* r'<https:/[^>]*>.*\n' tried at q: the last index of its match, or 0.
\* [^>]* runs over newlines up to the first '>', then .*\n needs the line of
\* that '>' to be terminated.
MalformedTailEnd(s, q) ==
    IF ~LitAt(s, q, Marker) THEN 0
    ELSE LET gts == {r \in (q + Len(Marker))..Len(s) : s[r] = ">"}
         IN IF gts = {} THEN 0 ELSE EolAt(s, Min(gts) + 1)

\* r'.*<https:/[^>]*>.*\n' tried at p: the greedy .* gives back characters
\* until the rest matches, so the rightmost marker of the line of p that
\* can be completed decides the end of the match.
MalformedEnd(s, p) ==
    LET qs == {q \in p..DotStarEnd(s, p) : MalformedTailEnd(s, q) # 0}
    IN IF qs = {} THEN 0 ELSE MalformedTailEnd(s, Max(qs))

\* r'\S+@\S+\.\S+' has a match that uses s[a] as its '@' and s[b] as its dot
EmailAt(s, a, b) ==
    /\ a >= 2 /\ b >= a + 2 /\ b + 1 <= Len(s)
    /\ s[a] = "@" /\ s[b] = "."
    /\ ~IsSpace(s[a - 1])
    /\ \A k \in (a + 1)..(b - 1) : ~IsSpace(s[k])
    /\ ~IsSpace(s[b + 1])

\* r'\S+@\S+\.\S+' matches somewhere inside s[lo..hi]
HasEmail(s, lo, hi) ==
    \E a \in {k \in (lo + 1)..hi : s[k] = "@"} :
        \E b \in {k \in (a + 2)..(hi - 1) : s[k] = "."} : EmailAt(s, a, b)

\* r'.*\S+@\S+\.\S+.*\n' tried at p
EmailEnd(s, p) ==
    LET e == EolAt(s, p)
    IN IF e # 0 /\ HasEmail(s, p, e - 1) THEN e ELSE 0

DigitsAt(s, p, n) ==
    /\ p + n - 1 <= Len(s)
    /\ \A k \in p..(p + n - 1) : IsDigit(s[k])

\* position after an optional [\.\-] at t
SkipSep(s, t) == IF t <= Len(s) /\ IsPhoneSep(s[t]) THEN t + 1 ELSE t

\* r'\d{3}[\.\-]?\d{3}[\.\-]?\d{4}' tried at q: last index of the match or 0
PhoneAt(s, q) ==
    IF ~DigitsAt(s, q, 3) THEN 0
    ELSE LET t == SkipSep(s, q + 3)
         IN IF ~DigitsAt(s, t, 3) THEN 0
            ELSE LET u == SkipSep(s, t + 3)
                 IN IF DigitsAt(s, u, 4) THEN u + 3 ELSE 0

HasPhone(s, lo, hi) ==
    \E q \in lo..hi : PhoneAt(s, q) # 0 /\ PhoneAt(s, q) <= hi

\* r'.*\d{3}[\.\-]?\d{3}[\.\-]?\d{4}.*\n' tried at p
PhoneEnd(s, p) ==
    LET e == EolAt(s, p)
    IN IF e # 0 /\ HasPhone(s, p, e - 1) THEN e ELSE 0

\* BlankEnd with a lazy \s*?: the match ends at the first newline
BlankEndLazy(s, p) ==
    IF p # 1 THEN 0
    ELSE LET w == {k \in 1..Len(s) : \A j \in 1..k : IsSpace(s[j])}
             nls == {k \in w : s[k] = NL}
         IN IF nls = {} THEN 0 ELSE Min(nls)

\* r'^\s*\n' without re.MULTILINE: ^ matches at the start of the text only;
\* \s* takes the leading white space and gives back to its last newline
BlankEnd(s, p) ==
    IF p # 1 THEN 0
    ELSE LET w == {k \in 1..Len(s) : \A j \in 1..k : IsSpace(s[j])}
             nls == {k \in w : s[k] = NL}
         IN IF nls = {} THEN 0 ELSE Max(nls)

(* ------------------------------------------------------------------ *)
(* create_safe_filename                                                *)
(* ------------------------------------------------------------------ *)
\* the length create_safe_filename cuts the name to
NameLimit == 200

HttpsScheme == <<"h", "t", "t", "p", "s", ":", "/", "/">>
HttpScheme == <<"h", "t", "t", "p", ":", "/", "/">>
WwwLabel == <<"w", "w", "w", ".">>

\* the class [\\/*?:"<>|]
ReservedChars == {"\\", "/", "*", "?", ":", "\"", "<", ">", "|"}

\* ReservedEnd with the colon left out of the class
ReservedEndNoColon(s, p) == IF s[p] \in ReservedChars \ {":"} THEN p ELSE 0

\* r'[\\/*?:"<>|]' tried at p
ReservedEnd(s, p) == IF s[p] \in ReservedChars THEN p ELSE 0

\* the class [/\.]
IsSlashOrDot(c) == c \in {"/", "."}

\* r'[/\.]+' tried at p: the last index of the run that starts at p, or 0
RECURSIVE RunEnd(_, _)
RunEnd(s, p) ==
    IF p > Len(s) \/ ~IsSlashOrDot(s[p]) THEN 0
    ELSE IF RunEnd(s, p + 1) = 0 THEN p ELSE RunEnd(s, p + 1)

(* ------------------------------------------------------------------ *)
(* re.sub and str.replace                                              *)
(* ------------------------------------------------------------------ *)
\* str.replace(old, ...) looks for the literal old at p
LiteralEnd(s, p, old) == IF LitAt(s, p, old) THEN p + Len(old) - 1 ELSE 0

\* the patterns of the two functions
Pattern(k) == [kind |-> k, lit |-> <<>>]
Literal(old) == [kind |-> "literal", lit |-> old]

\* the last index of the match pattern pat has at p of s, 0 without a match
MatchEnd(pat, s, p) ==
    CASE pat.kind = "malformed" -> MalformedEnd(s, p)
      [] pat.kind = "email" -> EmailEnd(s, p)
      [] pat.kind = "phone" -> PhoneEnd(s, p)
      [] pat.kind = "blank" -> BlankEnd(s, p)
      [] pat.kind = "reserved" -> ReservedEnd(s, p)
      [] pat.kind = "run" -> RunEnd(s, p)
      [] pat.kind = "literal" -> LiteralEnd(s, p, pat.lit)

(* A left-to-right scan of the text s: where pat matches at p the match is *)
(* replaced by repl and the scan goes on after it, otherwise the character *)
(* is copied. ScanBlock scans up to position `limit` and yields            *)
(* <<output, position reached>>; ScanAll scans block by block, which keeps *)
(* the depth of evaluation low on long texts.                              *)
RECURSIVE ScanBlock(_, _, _, _, _)
ScanBlock(s, pat, repl, p, limit) ==
    IF p > limit \/ p > Len(s) THEN <<<<>>, p>>
    ELSE LET e == MatchEnd(pat, s, p)
             r == ScanBlock(s, pat, repl, IF e # 0 THEN e + 1 ELSE p + 1, limit)
         IN <<(IF e # 0 THEN repl ELSE <<s[p]>>) \o r[1], r[2]>>

RECURSIVE ScanAll(_, _, _, _)
ScanAll(s, pat, repl, p) ==
    IF p > Len(s) THEN <<>>
    ELSE LET r == ScanBlock(s, pat, repl, p, p + 15)
         IN r[1] \o ScanAll(s, pat, repl, r[2])

\* re.sub(pat, repl, s) and s.replace(old, repl): leftmost match first,
\* matches do not overlap
ReSub(s, pat, repl) == ScanAll(s, pat, repl, 1)

\* lines 166, 169, 172, 175
DropMalformed(s) == ReSub(s, Pattern("malformed"), <<>>)
DropEmails(s) == ReSub(s, Pattern("email"), <<>>)
DropPhones(s) == ReSub(s, Pattern("phone"), <<>>)
DropBlank(s) == ReSub(s, Pattern("blank"), <<>>)

remove_malformed_links(text) ==
    DropBlank(DropPhones(DropEmails(DropMalformed(text))))

\* url.replace(old, '')
StrRemove(s, old) == ReSub(s, Literal(old), <<>>)

\* re.sub(r'[\\/*?:"<>|]', '_', s)
SubReserved(s) == ReSub(s, Pattern("reserved"), <<"_">>)

\* re.sub(r'[/\.]+', '_', s)
CollapseRuns(s) == ReSub(s, Pattern("run"), <<"_">>)

\* safe_name[:200] when it is longer than 200
Truncate(s) == IF Len(s) > NameLimit THEN SubSeq(s, 1, NameLimit) ELSE s

create_safe_filename(u) ==
    Truncate(CollapseRuns(SubReserved(
        StrRemove(StrRemove(StrRemove(u, HttpsScheme), HttpScheme), WwwLabel))))

(* ------------------------------------------------------------------ *)
(* State                                                               *)
(* ------------------------------------------------------------------ *)
VARIABLES
    \* crawl_parallel
    urls,            \* the URL list (argument)
    max_concurrent,  \* the batch size (argument)
    outcome,         \* what the fetch of each URL position ends with
    pc,              \* where crawl_parallel stands
    crawler,         \* "new", "started" or "closed"
    closeCalls,      \* calls of crawler.close()
    i,               \* loop variable of the batch loop
    batch,           \* urls[i : i + max_concurrent]
    batches,         \* the batches formed so far
    issued,          \* every crawler.arun call of the run, in order
    inflight,        \* positions whose fetch runs
    overtaken,       \* a fetch ended while an earlier one of its batch ran
    results,         \* the list asyncio.gather builds
    triaged,         \* position of the triage loop in the batch
    success_count,
    fail_count,
    files,           \* output directory: file name -> content
    handled,         \* positions whose triage began, in order
    summary,         \* the summary printed, <<>> before
    fault,           \* the exception that propagates, "none" without
    \* remove_malformed_links
    content, filtered, refiltered, sanPc,
    \* create_safe_filename
    url, safe_name, namePc,
    \* process_multiple_files
    matching_files,  \* what glob.glob returned
    output_dir,      \* TRUE when an output directory is given
    failing,         \* the files whose conversion raises
    pdfPc, fileIdx, attempts, pdfs, pdfLog, dirMade, pdfFault

crawlVars == <<urls, max_concurrent, outcome, pc, crawler, closeCalls, i, batch,
               batches, issued, inflight, overtaken, results, triaged, success_count,
               fail_count, files, handled, summary, fault>>
sanVars == <<content, filtered, refiltered, sanPc>>
nameVars == <<url, safe_name, namePc>>
pdfVars == <<matching_files, output_dir, failing, pdfPc, fileIdx, attempts, pdfs,
             pdfLog, dirMade, pdfFault>>
vars == <<crawlVars, sanVars, nameVars, pdfVars>>

\* the components that do not run in a specification stay as constructed
CrawlIdle ==
    /\ urls = <<>> /\ max_concurrent = 1 /\ outcome = <<>> /\ pc = "idle"
    /\ crawler = "new" /\ closeCalls = 0 /\ i = 0 /\ batch = <<>>
    /\ batches = <<>> /\ issued = <<>> /\ inflight = {} /\ overtaken = FALSE
    /\ results = <<>> /\ triaged = 0 /\ success_count = 0 /\ fail_count = 0
    /\ files = <<>> /\ handled = <<>> /\ summary = <<>> /\ fault = "none"
SanIdle ==
    content = <<>> /\ filtered = <<>> /\ refiltered = <<>> /\ sanPc = "idle"
NameIdle ==
    url = <<>> /\ safe_name = <<>> /\ namePc = "idle"
PdfIdle ==
    /\ matching_files = <<>> /\ output_dir = FALSE /\ failing = {}
    /\ pdfPc = "idle" /\ fileIdx = 0 /\ attempts = <<>> /\ pdfs = <<>>
    /\ pdfLog = <<>> /\ dirMade = FALSE /\ pdfFault = "none"

\* all sequences over S of length at most n
SeqsUpTo(S, n) == UNION {[1..k -> S] : k \in 0..n}

\* concatenations of at most n fragments
RECURSIVE Texts(_, _)
Texts(frags, n) ==
    IF n = 0 THEN {<<>>}
    ELSE LET shorter == Texts(frags, n - 1)
         IN shorter \cup {x \o f : x \in shorter, f \in frags}

\* f with f[k] set to v, k added to the domain when new
Put(f, k, v) == [x \in DOMAIN f \cup {k} |-> IF x = k THEN v ELSE f[x]]

(* ------------------------------------------------------------------ *)
(* crawl_parallel                                                      *)
(* ------------------------------------------------------------------ *)
UrlA == <<"h", "t", "t", "p", "s", ":", "/", "/", "a", "/", "b">>
UrlB == <<"h", "t", "t", "p", "s", ":", "/", "/", "a", ".", "b">>
UrlC == <<"h", "t", "t", "p", ":", "/", "/", "c">>
UrlPool == {UrlA, UrlB, UrlC}

\* result.markdown_v2.raw_markdown of the page the engine renders for a URL
MdPlain == <<"o", "k", NL>>
MdEmail == <<"m", "@", "x", ".", "y", NL, "o", "k", NL>>
PageOf(u) == IF u = UrlB THEN MdEmail ELSE MdPlain
Pages == {PageOf(u) : u \in UrlPool}

\* lines 108 and 111 on the pages and URLs of the pool, computed once
FilteredPage == [md \in Pages |-> remove_malformed_links(md)]
SafeNameOf == [u \in UrlPool |-> create_safe_filename(u)]

\* what a fetch can end with: an exception, or a result with its success flag
RaisedOutcome == [raised |-> TRUE, success |-> FALSE, markdown |-> <<>>]
FailedOutcome == [raised |-> FALSE, success |-> FALSE, markdown |-> <<>>]
SuccessOutcome(u) == [raised |-> FALSE, success |-> TRUE, markdown |-> PageOf(u)]
OutcomeKinds == {"raised", "failed", "success"}
OutcomeOf(kind, u) ==
    IF kind = "raised" THEN RaisedOutcome
    ELSE IF kind = "failed" THEN FailedOutcome
    ELSE SuccessOutcome(u)
\* the slot of a fetch that has not ended
Pending == [raised |-> FALSE, success |-> FALSE, markdown |-> <<"?">>]

DigitChars == <<"0", "1", "2", "3", "4", "5", "6", "7", "8", "9">>

\* str(n) of a non-negative integer
RECURSIVE FormatInt(_)
FormatInt(n) ==
    IF n < 10 THEN <<DigitChars[n + 1]>>
    ELSE FormatInt(n \div 10) \o <<DigitChars[(n % 10) + 1]>>

SessionPrefix == <<"p", "a", "r", "a", "l", "l", "e", "l", "_",
                   "s", "e", "s", "s", "i", "o", "n", "_">>

\* SessionNumber from the position in the batch alone
SessionNumberInBatch(lo, j) == j

\* the number in the session id of the j-th URL of the batch starting at lo
SessionNumber(lo, j) == lo + j

\* f"parallel_session_{i + j}"
SessionId(lo, j) == SessionPrefix \o FormatInt(SessionNumber(lo, j))

\* BatchSlice one short: urls[lo : lo + n - 1]
BatchSliceShort(us, lo, n) ==
    SubSeq(us, lo + 1, IF lo + n - 1 < Len(us) THEN lo + n - 1 ELSE Len(us))

\* urls[lo : lo + n]
BatchSlice(us, lo, n) ==
    SubSeq(us, lo + 1, IF lo + n < Len(us) THEN lo + n ELSE Len(us))

\* f"# Crawled Content from {url}\n\n"
HeaderPrefix == <<"#", " ", "C", "r", "a", "w", "l", "e", "d", " ",
                  "C", "o", "n", "t", "e", "n", "t", " ", "f", "r", "o", "m", " ">>
Header(u) == HeaderPrefix \o u \o <<NL, NL>>

\* f"{safe_filename}.md"
MdName(u) == SafeNameOf[u] \o <<".", "m", "d">>

\* GatherDone as soon as one awaitable has ended
GatherDoneFirst == Cardinality(inflight) < Len(batch)

\* asyncio.gather returns when every awaitable has ended
GatherDone == inflight = {}

\* ReturnExceptions left at its default
ReturnExceptionsDefault == FALSE

\* line 89: return_exceptions=True, an exception is an item of the result
ReturnExceptions == TRUE

\* OnFaultPc without the try/finally: the exception leaves at once
OnFaultPcNoFinally == "raised"

\* lines 71 and 124: an exception inside the try block runs the finally block
OnFaultPc == "finally"

\* ResultSlot in the order the fetches end
ResultSlotArrival(p) == Len(batch) - Cardinality(inflight) + 1

\* the slot of the list of gather that the fetch of position p fills:
\* asyncio.gather keeps the order of the awaitables it was given
ResultSlot(p) == p - i + 1

\* results[j] of line 95
GatherResult(j) == results[j + 1]

CrawlInit ==
    /\ urls \in SeqsUpTo(UrlPool, MaxUrls)
    /\ max_concurrent \in 1..MaxConcurrent
    /\ outcome \in [1..Len(urls) -> OutcomeKinds]
    /\ pc = "start"
    /\ crawler = "new" /\ closeCalls = 0 /\ i = 0 /\ batch = <<>>
    /\ batches = <<>> /\ issued = <<>> /\ inflight = {} /\ overtaken = FALSE
    /\ results = <<>> /\ triaged = 0 /\ success_count = 0 /\ fail_count = 0
    /\ files = <<>> /\ handled = <<>> /\ summary = <<>> /\ fault = "none"

\* crawl_parallel touches nothing of the other components
CrawlOnly == UNCHANGED <<sanVars, nameVars, pdfVars>>

\* line 69: await crawler.start(), before the try block
StartOk ==
    /\ pc = "start"
    /\ crawler' = "started"
    /\ pc' = "loop"
    /\ UNCHANGED <<urls, max_concurrent, outcome, closeCalls, i, batch, batches,
                   issued, inflight, overtaken, results, triaged, success_count,
                   fail_count, files, handled, summary, fault>>
    /\ CrawlOnly

StartRaises ==
    /\ pc = "start"
    /\ fault' = "start"
    /\ pc' = "raised"
    /\ UNCHANGED <<urls, max_concurrent, outcome, crawler, closeCalls, i, batch,
                   batches, issued, inflight, overtaken, results, triaged,
                   success_count, fail_count, files, handled, summary>>
    /\ CrawlOnly

\* lines 75-89: form the batch, call crawler.arun per URL, hand all to gather
LaunchBatch ==
    /\ pc = "loop"
    /\ i < Len(urls)
    /\ LET b == BatchSlice(urls, i, max_concurrent)
       IN /\ batch' = b
          /\ batches' = Append(batches, b)
          /\ issued' = issued \o
                 [j \in 1..Len(b) |->
                     [url |-> b[j], session_id |-> SessionId(i, j - 1),
                      pos |-> i + j - 1, first |-> i, engine |-> crawler]]
          /\ inflight' = inflight \cup {i + j - 1 : j \in 1..Len(b)}
          /\ results' = [j \in 1..Len(b) |-> Pending]
    /\ pc' = "gather"
    /\ UNCHANGED <<overtaken, urls, max_concurrent, outcome, crawler, closeCalls, i, triaged,
                   success_count, fail_count, files, handled, summary, fault>>
    /\ CrawlOnly

\* one fetch ends; gather puts what it ended with in the slot of its awaitable
FetchComplete(p) ==
    /\ p \in inflight
    /\ inflight' = inflight \ {p}
    /\ overtaken' = (overtaken \/ \E q \in inflight : i <= q /\ q < p)
    /\ results' = IF p >= i /\ p - i < Len(results)
                  THEN [results EXCEPT
                           ![ResultSlot(p)] = OutcomeOf(outcome[p + 1], urls[p + 1])]
                  ELSE results
    /\ UNCHANGED <<urls, max_concurrent, outcome, pc, crawler, closeCalls, i,
                   batch, batches, issued, triaged, success_count, fail_count, files,
                   handled, summary, fault>>
    /\ CrawlOnly

\* line 89 returns; line 95 starts the triage of the batch
GatherReturn ==
    /\ pc = "gather"
    /\ GatherDone
    /\ triaged' = 0
    /\ IF ReturnExceptions \/ \A j \in DOMAIN results : ~results[j].raised
       THEN pc' = "triage" /\ fault' = fault
       ELSE pc' = OnFaultPc /\ fault' = "fetch"
    /\ UNCHANGED <<urls, max_concurrent, outcome, crawler, closeCalls, i, batch,
                   batches, issued, inflight, overtaken, results, success_count,
                   fail_count, files, handled, summary>>
    /\ CrawlOnly

\* lines 96-98: the result is an exception
HandleException ==
    /\ pc = "triage" /\ triaged < Len(batch)
    /\ GatherResult(triaged).raised
    /\ fail_count' = fail_count + 1
    /\ handled' = Append(handled, i + triaged)
    /\ triaged' = triaged + 1
    /\ UNCHANGED <<urls, max_concurrent, outcome, pc, crawler, closeCalls, i,
                   batch, batches, issued, inflight, overtaken, results,
                   success_count, files, summary, fault>>
    /\ CrawlOnly

\* lines 117-118: a result with success false
HandleFailure ==
    /\ pc = "triage" /\ triaged < Len(batch)
    /\ ~GatherResult(triaged).raised /\ ~GatherResult(triaged).success
    /\ fail_count' = fail_count + 1
    /\ handled' = Append(handled, i + triaged)
    /\ triaged' = triaged + 1
    /\ UNCHANGED <<urls, max_concurrent, outcome, pc, crawler, closeCalls, i,
                   batch, batches, issued, inflight, overtaken, results,
                   success_count, files, summary, fault>>
    /\ CrawlOnly

\* lines 99-115: a result with success true, the file is written
HandleSuccess ==
    /\ pc = "triage" /\ triaged < Len(batch)
    /\ ~GatherResult(triaged).raised /\ GatherResult(triaged).success
    /\ success_count' = success_count + 1
    /\ files' = Put(files, MdName(batch[triaged + 1]),
                    Header(batch[triaged + 1]) \o FilteredPage[GatherResult(triaged).markdown])
    /\ handled' = Append(handled, i + triaged)
    /\ triaged' = triaged + 1
    /\ UNCHANGED <<urls, max_concurrent, outcome, pc, crawler, closeCalls, i,
                   batch, batches, issued, inflight, overtaken, results,
                   fail_count, summary, fault>>
    /\ CrawlOnly

\* line 113: open() raises; the count of line 100 stays, no file is touched
HandleSuccessOpenRaises ==
    /\ pc = "triage" /\ triaged < Len(batch)
    /\ ~GatherResult(triaged).raised /\ GatherResult(triaged).success
    /\ success_count' = success_count + 1
    /\ fault' = "write"
    /\ handled' = Append(handled, i + triaged)
    /\ pc' = OnFaultPc
    /\ UNCHANGED <<urls, max_concurrent, outcome, crawler, closeCalls, i, batch,
                   batches, issued, inflight, overtaken, results, triaged, fail_count,
                   files, summary>>
    /\ CrawlOnly

\* line 115: the second file.write raises; the file holds the header alone
HandleSuccessWriteRaises ==
    /\ pc = "triage" /\ triaged < Len(batch)
    /\ ~GatherResult(triaged).raised /\ GatherResult(triaged).success
    /\ success_count' = success_count + 1
    /\ files' = Put(files, MdName(batch[triaged + 1]), Header(batch[triaged + 1]))
    /\ fault' = "write"
    /\ handled' = Append(handled, i + triaged)
    /\ pc' = OnFaultPc
    /\ UNCHANGED <<urls, max_concurrent, outcome, crawler, closeCalls, i, batch,
                   batches, issued, inflight, overtaken, results, triaged, fail_count,
                   summary>>
    /\ CrawlOnly

\* the zip of line 95 is exhausted: next value of range(0, len(urls), n)
NextBatch ==
    /\ pc = "triage" /\ triaged >= Len(batch)
    /\ i' = i + max_concurrent
    /\ pc' = "loop"
    /\ UNCHANGED <<urls, max_concurrent, outcome, crawler, closeCalls, batch,
                   batches, issued, inflight, overtaken, results, triaged,
                   success_count, fail_count, files, handled, summary, fault>>
    /\ CrawlOnly

\* lines 120-122: the range is exhausted, the summary is printed
PrintSummary ==
    /\ pc = "loop"
    /\ i >= Len(urls)
    /\ summary' = <<success_count, fail_count>>
    /\ pc' = "finally"
    /\ UNCHANGED <<urls, max_concurrent, outcome, crawler, closeCalls, i, batch,
                   batches, issued, inflight, overtaken, results, triaged,
                   success_count, fail_count, files, handled, fault>>
    /\ CrawlOnly

\* lines 124-126: finally: await crawler.close(), which returns
CloseOk ==
    /\ pc = "finally"
    /\ closeCalls' = closeCalls + 1
    /\ crawler' = "closed"
    /\ pc' = IF fault = "none" THEN "done" ELSE "raised"
    /\ UNCHANGED <<urls, max_concurrent, outcome, i, batch, batches, issued,
                   inflight, overtaken, results, triaged, success_count, fail_count,
                   files, handled, summary, fault>>
    /\ CrawlOnly

\* lines 124-126: finally: crawler.close() is called and raises
CloseRaises ==
    /\ pc = "finally"
    /\ closeCalls' = closeCalls + 1
    /\ fault' = "close"
    /\ pc' = "raised"
    /\ UNCHANGED <<urls, max_concurrent, outcome, crawler, i, batch, batches,
                   issued, inflight, overtaken, results, triaged, success_count,
                   fail_count, files, handled, summary>>
    /\ CrawlOnly

NextCrawl ==
    \/ StartOk
    \/ StartRaises
    \/ LaunchBatch
    \/ \E p \in inflight : FetchComplete(p)
    \/ GatherReturn
    \/ HandleException
    \/ HandleFailure
    \/ HandleSuccess
    \/ HandleSuccessOpenRaises
    \/ HandleSuccessWriteRaises
    \/ NextBatch
    \/ PrintSummary
    \/ CloseOk
    \/ CloseRaises

InitCrawl == CrawlInit /\ SanIdle /\ NameIdle /\ PdfIdle
SpecCrawl == InitCrawl /\ [][NextCrawl]_vars

(* ------------------------------------------------------------------ *)
(* remove_malformed_links applied to a text, and to its own output     *)
(* ------------------------------------------------------------------ *)
IgLine == <<"[", "i", "g", "]", "(", "h", "t", "t", "p", "s", ":", "/", "/",
            "s", "i", "t", "e", ".", "c", "o", "m", "/",
            "<", "h", "t", "t", "p", "s", ":", "/",
            "i", "n", "s", "t", "a", "g", "r", "a", "m", ".", "c", "o", "m",
            "/", "x", ">", ")">>

\* what the texts handed to the sanitizer are built from
SanFragments ==
    {<<NL>>, <<" ">>, <<"a">>, Marker, <<">">>,
     <<"x", "@", "y", ".", "z">>,
     <<"5", "5", "5">>, <<"-", "5", "5", "5", "1", "2", "3", "4">>}

\* the link line of the crawled pages, alone and between other lines
IgTexts ==
    {pre \o IgLine \o post : pre \in {<<>>, <<"a", NL>>},
                             post \in {<<>>, <<NL>>, <<NL, "a">>}}

SanInit ==
    /\ content \in Texts(SanFragments, MaxPieces) \cup IgTexts
    /\ filtered = <<>> /\ refiltered = <<>>
    /\ sanPc = "raw"

\* line 108: filtered_markdown = remove_malformed_links(raw_markdown)
Sanitize ==
    /\ sanPc = "raw"
    /\ filtered' = remove_malformed_links(content)
    /\ sanPc' = "filtered"
    /\ UNCHANGED <<content, refiltered>>
    /\ UNCHANGED <<crawlVars, nameVars, pdfVars>>

\* the sanitizer applied to sanitized content
SanitizeAgain ==
    /\ sanPc = "filtered"
    /\ refiltered' = remove_malformed_links(filtered)
    /\ sanPc' = "refiltered"
    /\ UNCHANGED <<content, filtered>>
    /\ UNCHANGED <<crawlVars, nameVars, pdfVars>>

InitSan == SanInit /\ CrawlIdle /\ NameIdle /\ PdfIdle
NextSan == Sanitize \/ SanitizeAgain
SpecSan == InitSan /\ [][NextSan]_vars

(* ------------------------------------------------------------------ *)
(* create_safe_filename applied to a URL                               *)
(* ------------------------------------------------------------------ *)
\* 199 characters: one more character reaches the limit of 200
LongRun == [k \in 1..(NameLimit - 1) |-> "a"]

\* what the URLs handed to create_safe_filename are built from
UrlFragments ==
    {HttpsScheme, HttpScheme, WwwLabel, <<"a">>, <<"/">>, <<".">>, <<"?">>,
     <<"\\", "*", ":", "\"", "<", ">", "|">>}

NameInit ==
    /\ url \in {head \o x : head \in {<<>>, LongRun},
                            x \in Texts(UrlFragments, MaxUrlPieces)}
    /\ safe_name = <<>>
    /\ namePc = "url"

\* line 111: safe_filename = create_safe_filename(url)
MakeName ==
    /\ namePc = "url"
    /\ safe_name' = create_safe_filename(url)
    /\ namePc' = "named"
    /\ UNCHANGED url
    /\ UNCHANGED <<crawlVars, sanVars, pdfVars>>

InitName == NameInit /\ CrawlIdle /\ SanIdle /\ PdfIdle
NextName == MakeName
SpecName == InitName /\ [][NextName]_vars

(* ------------------------------------------------------------------ *)
(* process_multiple_files                                              *)
(* ------------------------------------------------------------------ *)
\* a path is its directory, the name without extension, and the extension
MdFile(d, n) == [dir |-> d, stem |-> n, ext |-> ".md"]
FilePool == {MdFile("docs", "a"), MdFile("docs", "b"),
             MdFile("sub", "a"), MdFile("sub", "c")}

\* os.path.splitext(path)[0] + '.pdf'
WithPdfExt(path) == [path EXCEPT !.ext = ".pdf"]

\* os.path.join(output_dir, basename): the directory part is replaced
InDir(d, path) == [path EXCEPT !.dir = d]

\* lines 150-160 and 18-19: where the PDF of input_file goes
OutputFile(input_file) ==
    IF output_dir THEN InDir("out", WithPdfExt(input_file))
    ELSE WithPdfExt(input_file)

\* ExceptPc without the except clause: the error leaves the loop
ExceptPcReraise == "raised"

\* lines 165-166: the except clause logs, and the for loop goes on
ExceptPc == "loop"

NoFilesMsg == <<"No files found matching pattern">>

\* glob.glob yields every matching path once
GlobResults ==
    {fs \in SeqsUpTo(FilePool, MaxFiles) :
        \A a, b \in DOMAIN fs : a # b => fs[a] # fs[b]}

PdfInit ==
    /\ matching_files \in GlobResults
    /\ output_dir \in BOOLEAN
    /\ failing \in SUBSET {matching_files[k] : k \in DOMAIN matching_files}
    /\ pdfPc = "glob"
    /\ fileIdx = 0
    /\ attempts = [k \in DOMAIN matching_files |-> 0]
    /\ pdfs = <<>>
    /\ pdfLog = <<>>
    /\ dirMade = FALSE
    /\ pdfFault = "none"

PdfOnly == UNCHANGED <<crawlVars, sanVars, nameVars>>

\* lines 142-146: no file matches
GlobEmpty ==
    /\ pdfPc = "glob"
    /\ matching_files = <<>>
    /\ pdfLog' = Append(pdfLog, NoFilesMsg)
    /\ pdfPc' = "done"
    /\ UNCHANGED <<matching_files, output_dir, failing, fileIdx, attempts, pdfs,
                   dirMade, pdfFault>>
    /\ PdfOnly

\* lines 142-149: some file matches, the loop starts
GlobFound ==
    /\ pdfPc = "glob"
    /\ matching_files # <<>>
    /\ fileIdx' = 1
    /\ pdfPc' = "loop"
    /\ UNCHANGED <<matching_files, output_dir, failing, attempts, pdfs, pdfLog,
                   dirMade, pdfFault>>
    /\ PdfOnly

\* line 152: os.makedirs raises, outside the try block
MakedirsRaises ==
    /\ pdfPc = "loop"
    /\ fileIdx <= Len(matching_files)
    /\ output_dir
    /\ pdfFault' = "makedirs"
    /\ pdfPc' = "raised"
    /\ UNCHANGED <<matching_files, output_dir, failing, fileIdx, attempts, pdfs,
                   pdfLog, dirMade>>
    /\ PdfOnly

\* lines 150-164: one iteration whose markdown_to_pdf returns
ConvertOk ==
    /\ pdfPc = "loop"
    /\ fileIdx <= Len(matching_files)
    /\ matching_files[fileIdx] \notin failing
    /\ dirMade' = (dirMade \/ output_dir)
    /\ attempts' = [attempts EXCEPT ![fileIdx] = @ + 1]
    /\ pdfs' = Put(pdfs, OutputFile(matching_files[fileIdx]),
                   matching_files[fileIdx])
    /\ pdfLog' = Append(pdfLog, <<"Successfully converted", matching_files[fileIdx]>>)
    /\ fileIdx' = fileIdx + 1
    /\ UNCHANGED <<matching_files, output_dir, failing, pdfPc, pdfFault>>
    /\ PdfOnly

\* lines 150-166: one iteration whose markdown_to_pdf raises
ConvertRaises ==
    /\ pdfPc = "loop"
    /\ fileIdx <= Len(matching_files)
    /\ matching_files[fileIdx] \in failing
    /\ dirMade' = (dirMade \/ output_dir)
    /\ attempts' = [attempts EXCEPT ![fileIdx] = @ + 1]
    /\ pdfLog' = Append(pdfLog, <<"Error converting", matching_files[fileIdx]>>)
    /\ fileIdx' = fileIdx + 1
    /\ pdfPc' = ExceptPc
    /\ pdfFault' = IF ExceptPc = "loop" THEN pdfFault ELSE "conversion"
    /\ UNCHANGED <<matching_files, output_dir, failing, pdfs>>
    /\ PdfOnly

\* line 149: matching_files is exhausted
LoopEnd ==
    /\ pdfPc = "loop"
    /\ fileIdx > Len(matching_files)
    /\ pdfPc' = "done"
    /\ UNCHANGED <<matching_files, output_dir, failing, fileIdx, attempts, pdfs,
                   pdfLog, dirMade, pdfFault>>
    /\ PdfOnly

InitPdf == PdfInit /\ CrawlIdle /\ SanIdle /\ NameIdle
NextPdf ==
    \/ GlobEmpty
    \/ GlobFound
    \/ MakedirsRaises
    \/ ConvertOk
    \/ ConvertRaises
    \/ LoopEnd
SpecPdf == InitPdf /\ [][NextPdf]_vars

(* ================================================================== *)
(* Properties                                                          *)
(* ================================================================== *)
RECURSIVE Flatten(_)
Flatten(ss) == IF ss = <<>> THEN <<>> ELSE Head(ss) \o Flatten(Tail(ss))

\* the URLs in the order their results were handled
ProcessedUrls == [k \in DOMAIN handled |-> urls[handled[k] + 1]]

\* positions 0 .. n-1 in list order
InOrder(n) == [k \in 1..n |-> k - 1]

HandledSet == {handled[k] : k \in DOMAIN handled}

\* C1: for a list of length L and batch size N >= 1 crawl_parallel forms
\* exactly ceil(L/N) batches, each of 1..N URLs, and the batches concatenated
\* in the order they are processed are the input list: nothing is skipped,
\* duplicated or reordered.
C1_Batching ==
    /\ \A k \in DOMAIN batches :
          Len(batches[k]) >= 1 /\ Len(batches[k]) <= max_concurrent
    /\ Len(Flatten(batches)) <= Len(urls)
    /\ Flatten(batches) = SubSeq(urls, 1, Len(Flatten(batches)))
    /\ summary # <<>> =>
          /\ Len(batches) = (Len(urls) + max_concurrent - 1) \div max_concurrent
          /\ Flatten(batches) = urls
          /\ ProcessedUrls = urls

C1_Witness ==
    /\ summary # <<>>
    /\ Len(urls) = 3 /\ max_concurrent = 2
    /\ Len(batches) = 2 /\ Len(batches[2]) = 1

\* C2: no fetch of batch k+1 is issued before every fetch of batch k has
\* ended and the results of batch k are handled; at every moment at most N
\* fetches are in flight, all of the same batch.
C2_BatchBarrier ==
    /\ Cardinality(inflight) <= max_concurrent
    /\ \A p \in inflight : i <= p /\ p < i + Len(batch)
    /\ \A k \in DOMAIN issued :
          \A q \in 0..(issued[k].first - 1) :
              q \notin inflight /\ q \in HandledSet

C2_Witness ==
    /\ i > 0
    /\ inflight # {}
    /\ Len(handled) = i
    /\ \E b \in DOMAIN batches : Len(batches[b]) = 2

\* the handled positions whose fetch ended with a success
HandledOk == {k \in DOMAIN handled : outcome[handled[k] + 1] = "success"}

\* C3: a failed fetch (exception or success = false) never stops the batch or
\* the run: every handled URL counts in exactly one of success_count and
\* fail_count, a file is written for a URL only if its fetch succeeded, the
\* only faults that leave the run are those of start, file writing and
\* close, and the summary is printed with every URL triaged and
\* success_count + fail_count = L.
C3_FailureIsolation ==
    /\ success_count = Cardinality(HandledOk)
    /\ fail_count = Len(handled) - Cardinality(HandledOk)
    /\ \A name \in DOMAIN files :
          \E k \in HandledOk :
              /\ name = MdName(urls[handled[k] + 1])
              /\ SubSeq(files[name], 1, Len(Header(urls[handled[k] + 1])))
                     = Header(urls[handled[k] + 1])
    /\ fault \in {"none", "start", "write", "close"}
    /\ fault = "write" => outcome[handled[Len(handled)] + 1] = "success"
    /\ summary # <<>> =>
          /\ handled = InOrder(Len(urls))
          /\ summary = <<success_count, fail_count>>
          /\ summary[1] + summary[2] = Len(urls)
          /\ summary[1] = Cardinality({k \in DOMAIN outcome : outcome[k] = "success"})

\* [A, B, C] with batch size 2 where only B fails
C3_Witness ==
    /\ pc = "done"
    /\ urls = <<UrlA, UrlB, UrlC>> /\ max_concurrent = 2
    /\ outcome[1] = "success" /\ outcome[2] # "success" /\ outcome[3] = "success"
    /\ DOMAIN files = {MdName(UrlA), MdName(UrlC)}
    /\ files[MdName(UrlA)] = Header(UrlA) \o FilteredPage[PageOf(UrlA)]
    /\ files[MdName(UrlC)] = Header(UrlC) \o FilteredPage[PageOf(UrlC)]
    /\ summary = <<2, 1>>

\* C4: the session id of a fetch is made from the absolute position of its
\* URL in the list, so any two fetches of a run carry different session ids.
C4_DistinctSessions ==
    /\ \A k \in DOMAIN issued :
          /\ issued[k].pos = k - 1
          /\ issued[k].session_id = SessionPrefix \o FormatInt(issued[k].pos)
    /\ \A a, b \in DOMAIN issued :
          a # b => issued[a].session_id # issued[b].session_id

C4_Witness ==
    /\ Len(issued) = 3
    /\ issued[1].first = issued[2].first
    /\ issued[3].first # issued[1].first

\* C5 as stated: the crawler is started before the first fetch, closed
\* exactly once on every exit path of crawl_parallel, and no fetch is issued
\* before start or after close.
C5_ClosedOnEveryExit ==
    /\ pc \in {"done", "raised"} => closeCalls = 1
    /\ \A k \in DOMAIN issued : issued[k].engine = "started"
    /\ inflight # {} => crawler = "started"

\* C5 amended: the crawler is started before the first fetch and, once
\* start() has returned, closed exactly once on every exit path, the one of
\* a fault in the handling of a batch included; when start() itself raises,
\* close is not called; no fetch is issued before start or after close.
C5_ClosedOnceAfterStart ==
    /\ closeCalls <= 1
    /\ (pc \in {"done", "raised"} /\ fault # "start") => closeCalls = 1
    /\ fault = "start" => closeCalls = 0 /\ issued = <<>> /\ pc = "raised"
    /\ crawler = "new" => issued = <<>> /\ closeCalls = 0
    /\ \A k \in DOMAIN issued : issued[k].engine = "started"
    /\ inflight # {} => crawler = "started" /\ closeCalls = 0

C5_Witness ==
    /\ pc = "raised"
    /\ fault = "write"
    /\ closeCalls = 1
    /\ Len(batches) = 2

\* C6: remove_malformed_links is idempotent: applied to its own output it
\* changes nothing.
C6_Idempotent ==
    sanPc = "refiltered" => refiltered = filtered

C6_Witness ==
    /\ sanPc = "refiltered"
    /\ filtered # content
    /\ filtered # <<>>
    /\ refiltered = filtered

\* the lines of a text; the last one may lack its newline
RECURSIVE LinesOf(_)
LinesOf(s) ==
    IF s = <<>> THEN <<>>
    ELSE IF EolAt(s, 1) = 0 THEN <<s>>
    ELSE <<SubSeq(s, 1, EolAt(s, 1) - 1)>>
             \o LinesOf(SubSeq(s, EolAt(s, 1) + 1, Len(s)))

\* the line holds '<https:/' and a '>' after it
HasMalformedLink(l) ==
    \E q \in 1..Len(l) :
        LitAt(l, q, Marker) /\ \E r \in (q + Len(Marker))..Len(l) : l[r] = ">"

\* the line matches no drop rule
KeepLine(l) ==
    /\ ~HasMalformedLink(l)
    /\ ~HasEmail(l, 1, Len(l))
    /\ ~HasPhone(l, 1, Len(l))
    /\ \E k \in 1..Len(l) : ~IsSpace(l[k])

\* C7: the output of remove_malformed_links holds no line with a
\* '<https:/...>' marker, an email-like token or a phone-like token and no
\* empty or white-space line, wherever the line stands in the input (the
\* last line without newline included), and every other line is kept
\* unchanged and in order.
C7_NoDropLineLeft ==
    sanPc # "raw" => LinesOf(filtered) = SelectSeq(LinesOf(content), KeepLine)

\* C8: the name create_safe_filename returns holds none of \ / * ? : " < > |
\* and is at most 200 characters long.
C8_SafeName ==
    namePc = "named" =>
        /\ \A k \in DOMAIN safe_name : safe_name[k] \notin ReservedChars
        /\ Len(safe_name) <= NameLimit

C8_Witness ==
    /\ namePc = "named"
    /\ Len(url) > NameLimit
    /\ Len(safe_name) = NameLimit
    /\ \E k \in DOMAIN url : url[k] \in ReservedChars
    /\ safe_name # SubSeq(url, 1, NameLimit)

FileSet == {matching_files[k] : k \in DOMAIN matching_files}

\* C9: process_multiple_files attempts the conversion of every matching file
\* exactly once; an error converting a file is logged and the loop goes on,
\* so every file whose conversion does not fail gets its PDF; with no
\* matching file the 'no files found' message is logged and nothing is
\* written.
C9_ConversionIsolation ==
    /\ \A k \in DOMAIN attempts : attempts[k] <= 1
    /\ pdfPc = "raised" => pdfFault = "makedirs"
    /\ \A path \in DOMAIN pdfs : pdfs[path] \in FileSet \ failing
    /\ pdfPc = "done" =>
          /\ \A k \in DOMAIN matching_files :
                /\ attempts[k] = 1
                /\ matching_files[k] \notin failing =>
                       OutputFile(matching_files[k]) \in DOMAIN pdfs
                /\ matching_files[k] \in failing =>
                       \E n \in DOMAIN pdfLog :
                           pdfLog[n] = <<"Error converting", matching_files[k]>>
          /\ matching_files = <<>> =>
                pdfLog = <<NoFilesMsg>> /\ pdfs = <<>> /\ ~dirMade

C9_Witness ==
    /\ pdfPc = "done"
    /\ Len(matching_files) = 3
    /\ matching_files[1] \in failing
    /\ matching_files[2] \notin failing
    /\ matching_files[3] \notin failing
    /\ OutputFile(matching_files[3]) \in DOMAIN pdfs

\* the output directory of a run that handles the URLs one by one in list
\* order
RECURSIVE SequentialFiles(_)
SequentialFiles(n) ==
    IF n = 0 THEN <<>>
    ELSE IF outcome[n] = "success"
         THEN Put(SequentialFiles(n - 1), MdName(urls[n]),
                  Header(urls[n]) \o FilteredPage[PageOf(urls[n])])
         ELSE SequentialFiles(n - 1)

\* C10: the order in which the fetches of a batch end does not show in the
\* outcome: for a URL list and per-URL fetch outcomes, the files and their
\* contents (the surviving one of two URLs with the same safe name
\* included), the two counts and the order of result handling are those of
\* handling the list in list order.
C10_CompletionOrderFree ==
    pc = "done" =>
        /\ files = SequentialFiles(Len(urls))
        /\ success_count = Cardinality({k \in DOMAIN outcome : outcome[k] = "success"})
        /\ fail_count = Cardinality({k \in DOMAIN outcome : outcome[k] # "success"})
        /\ handled = InOrder(Len(urls))

\* the later of two colliding URLs ended first, and the later one's content
\* is the one that is left
C10_Witness ==
    /\ pc = "done"
    /\ overtaken
    /\ urls = <<UrlA, UrlB>> /\ max_concurrent = 2
    /\ outcome[1] = "success" /\ outcome[2] = "success"
    /\ files[MdName(UrlB)] = Header(UrlB) \o FilteredPage[PageOf(UrlB)]

====
